---------------------------- MODULE Spec2Model ----------------------------
(***************************************************************************)
(* A model of ordenar_xml.py: the pipeline of main() (parse, strip_ns,     *)
(* select the Page objects, remove_sensitive and promote_title on each,    *)
(* sort, write_sorted_xml, write_html_report) over an element arena that   *)
(* keeps ElementTree's object identity, together with the pure helpers     *)
(* (IP_RE, URL_RE, int(), str.lower, html.escape, linkify).                *)
(*                                                                         *)
(* A Python str is a sequence of one-character strings, so that the        *)
(* regular expressions, int() and lower() are computed character by        *)
(* character.  None is the value NoneV.                                    *)
(***************************************************************************)
EXTENDS Integers, Sequences, FiniteSets, TLC

VARIABLES pc, mode, doc, parse_error, elems, pages, selected, idx, body_map, removed,
          removed_attrs, stdout, stderr, exit_code, files, out_xml, out_html,
          xml_failed, html_attempted, lk_text, lk_out

vars == <<pc, mode, doc, parse_error, elems, pages, selected, idx, body_map, removed,
          removed_attrs, stdout, stderr, exit_code, files, out_xml, out_html,
          xml_failed, html_attempted, lk_text, lk_out>>

-----------------------------------------------------------------------------
(* Strings                                                                 *)

\* None where a str is expected, and None where an Element is expected.
NoneV == <<"None">>
NoNode == 0

\* The ASCII characters 32 (space) to 122 (z) in code-point order; the entry
\* at 96 stands for the grave accent, which no input of the model uses.
Ascii ==
  << " ", "!", "\"", "#", "$", "%", "&", "'", "(", ")", "*", "+", ",", "-",
     ".", "/", "0", "1", "2", "3", "4", "5", "6", "7", "8", "9", ":", ";",
     "<", "=", ">", "?", "@", "A", "B", "C", "D", "E", "F", "G", "H", "I",
     "J", "K", "L", "M", "N", "O", "P", "Q", "R", "S", "T", "U", "V", "W",
     "X", "Y", "Z", "[", "\\", "]", "^", "_", "backtick", "a", "b", "c", "d", "e",
     "f", "g", "h", "i", "j", "k", "l", "m", "n", "o", "p", "q", "r", "s",
     "t", "u", "v", "w", "x", "y", "z" >>

\* The position of each character in Ascii.
AsciiIndex ==
  [c \in {Ascii[k] : k \in 1..Len(Ascii)} |->
     CHOOSE k \in 1..Len(Ascii) : Ascii[k] = c]

\* ord(c); the control characters tab and newline keep their own codes.
Ord(c) ==
  IF c = "\t" THEN 9 ELSE IF c = "\n" THEN 10 ELSE 31 + AsciiIndex[c]

Digits == {"0", "1", "2", "3", "4", "5", "6", "7", "8", "9"}
UpperChars == {Ascii[k] : k \in (65 - 31)..(90 - 31)}
LowerChars == {Ascii[k] : k \in (97 - 31)..(122 - 31)}
WordChars == Digits \cup UpperChars \cup LowerChars \cup {"_"}

IsDigit(c) == c \in Digits

IsUpper(c) == c \in UpperChars

\* \w of the re module, on ASCII.
IsWord(c) == c \in WordChars

\* \s of the re module and the characters str.strip() removes.
IsSpace(c) == c \in {" ", "\t", "\n"}

LowerCh(c) == IF IsUpper(c) THEN Ascii[Ord(c) + 32 - 31] ELSE c

\* str.lower()
Lower(s) == [k \in 1..Len(s) |-> LowerCh(s[k])]

\* s[a-1:b]: positions a..b (1-based, inclusive), clamped to the string as a
\* Python slice is.
Slice(s, a, b) ==
  LET lo == IF a < 1 THEN 1 ELSE a
      hi == IF b > Len(s) THEN Len(s) ELSE b
  IN IF lo > hi THEN <<>> ELSE SubSeq(s, lo, hi)

\* needle in hay
Contains(hay, needle) ==
  \E k \in 1..(Len(hay) - Len(needle) + 1) :
    Slice(hay, k, k + Len(needle) - 1) = needle

\* str.strip()
Strip(s) ==
  LET keep == {k \in 1..Len(s) : ~IsSpace(s[k])}
  IN IF keep = {} THEN <<>>
     ELSE LET lo == CHOOSE k \in keep : \A m \in keep : k <= m
              hi == CHOOSE k \in keep : \A m \in keep : k >= m
          IN Slice(s, lo, hi)

\* a < b for two str, by code points.
RECURSIVE StrLess(_, _)
StrLess(a, b) ==
  IF b = <<>> THEN FALSE
  ELSE IF a = <<>> THEN TRUE
  ELSE IF Ord(Head(a)) # Ord(Head(b)) THEN Ord(Head(a)) < Ord(Head(b))
  ELSE StrLess(Tail(a), Tail(b))

RECURSIVE Concat(_)
Concat(ss) == IF ss = <<>> THEN <<>> ELSE Head(ss) \o Concat(Tail(ss))

\* The literals of the program.
S_password == <<"p", "a", "s", "s", "w", "o", "r", "d">>
S_name == <<"n", "a", "m", "e">>
S_class == <<"c", "l", "a", "s", "s">>
S_Page == <<"P", "a", "g", "e">>
S_BodyContent == <<"B", "o", "d", "y", "C", "o", "n", "t", "e", "n", "t">>
S_title == <<"t", "i", "t", "l", "e">>
S_id == <<"i", "d">>
S_creationDate == <<"c", "r", "e", "a", "t", "i", "o", "n", "D", "a", "t", "e">>
S_lowerTitle == <<"l", "o", "w", "e", "r", "T", "i", "t", "l", "e">>
S_body == <<"b", "o", "d", "y">>
S_bodyContents == <<"b", "o", "d", "y", "C", "o", "n", "t", "e", "n", "t", "s">>
S_sinTitulo == <<"(", "s", "i", "n", " ", "t", "i", "t", "u", "l", "o", ")">>

-----------------------------------------------------------------------------
(* IP_RE = \b(?:\d{1,3}\.){3}\d{1,3}\b                                     *)

\* \b at the gap before position k (1..Len+1).
WordBoundary(s, k) ==
  LET before == k > 1 /\ IsWord(s[k - 1])
      after == k <= Len(s) /\ IsWord(s[k])
  IN before # after

AllDigits(s, a, b) == a <= b /\ b <= Len(s) /\ \A k \in a..b : IsDigit(s[k])

IsDot(s, k) == k <= Len(s) /\ s[k] = "."

\* A group \d{1,3} of n digits at position k, followed by a dot.
Group(s, k, n) == AllDigits(s, k, k + n - 1) /\ IsDot(s, k + n)

IPMatchAt(s, k) ==
  /\ WordBoundary(s, k)
  /\ \E a \in 1..3 :
       /\ Group(s, k, a)
       /\ \E b \in 1..3 :
            /\ Group(s, k + a + 1, b)
            /\ \E c \in 1..3 :
                 /\ Group(s, k + a + b + 2, c)
                 /\ \E d \in 1..3 :
                      /\ AllDigits(s, k + a + b + c + 3, k + a + b + c + d + 2)
                      /\ WordBoundary(s, k + a + b + c + d + 3)

\* IP_RE.search(s) is not None
IP_RE_search(s) == \E k \in 1..Len(s) : IPMatchAt(s, k)

-----------------------------------------------------------------------------
(* URL_RE = https?://[^\s<>\]]+                                            *)

S_http == <<"h", "t", "t", "p", ":", "/", "/">>
S_https == <<"h", "t", "t", "p", "s", ":", "/", "/">>

\* [^\s<>\]]
UrlChar(c) == ~IsSpace(c) /\ c \notin {"<", ">", "]"}

\* The length of https?:// at position k, 0 when it is not there.
UrlPrefixLen(s, k) ==
  IF Slice(s, k, k + 6) = S_http /\ k + 6 <= Len(s) THEN 7
  ELSE IF Slice(s, k, k + 7) = S_https /\ k + 7 <= Len(s) THEN 8
  ELSE 0

\* The greedy [^\s<>\]]+: the last position of the run that starts at k.
RECURSIVE UrlRunEnd(_, _)
UrlRunEnd(s, k) ==
  IF k + 1 <= Len(s) /\ UrlChar(s[k + 1]) THEN UrlRunEnd(s, k + 1) ELSE k

\* The last position of the match that starts at k, 0 when none starts there.
UrlMatchEnd(s, k) ==
  LET p == UrlPrefixLen(s, k)
  IN IF p > 0 /\ k + p <= Len(s) /\ UrlChar(s[k + p])
     THEN UrlRunEnd(s, k + p)
     ELSE 0

\* The start of the leftmost match at or after pos, 0 when there is none.
RECURSIVE UrlNextMatch(_, _)
UrlNextMatch(s, pos) ==
  IF pos > Len(s) THEN 0
  ELSE IF UrlMatchEnd(s, pos) > 0 THEN pos
  ELSE UrlNextMatch(s, pos + 1)

\* URL_RE.findall(text), scanning from pos.
RECURSIVE URL_RE_findall(_, _)
URL_RE_findall(s, pos) ==
  LET k == UrlNextMatch(s, pos)
  IN IF k = 0 THEN <<>>
     ELSE <<Slice(s, k, UrlMatchEnd(s, k))>>
          \o URL_RE_findall(s, UrlMatchEnd(s, k) + 1)

\* URL_RE.split(text), scanning from pos.
RECURSIVE URL_RE_split(_, _)
URL_RE_split(s, pos) ==
  LET k == UrlNextMatch(s, pos)
  IN IF k = 0 THEN <<Slice(s, pos, Len(s))>>
     ELSE <<Slice(s, pos, k - 1)>> \o URL_RE_split(s, UrlMatchEnd(s, k) + 1)

-----------------------------------------------------------------------------
(* html.escape and linkify                                                 *)

EscapeCh(c) ==
  CASE c = "&" -> <<"&", "a", "m", "p", ";">>
    [] c = "<" -> <<"&", "l", "t", ";">>
    [] c = ">" -> <<"&", "g", "t", ";">>
    [] c = "\"" -> <<"&", "q", "u", "o", "t", ";">>
    [] c = "'" -> <<"&", "#", "x", "2", "7", ";">>
    [] OTHER -> <<c>>

\* html.escape(s), quote=True
RECURSIVE html_escape(_)
html_escape(s) ==
  IF s = <<>> THEN <<>> ELSE EscapeCh(Head(s)) \o html_escape(Tail(s))

A_open == <<"<", "a", " ", "h", "r", "e", "f", "=", "\"">>
A_mid == <<"\"", " ", "t", "a", "r", "g", "e", "t", "=", "\"", "_", "b",
           "l", "a", "n", "k", "\"", ">">>
A_close == <<"<", "/", "a", ">">>

\* f'<a href="{u}" target="_blank">{u}</a>'
Anchor(u) == A_open \o u \o A_mid \o u \o A_close

\* The loop of linkify: the list out, built from part i on.
RECURSIVE LinkifyOut(_, _, _)
LinkifyOut(parts, urls, i) ==
  IF i > Len(parts) THEN <<>>
  ELSE <<html_escape(parts[i])>>
       \o (IF i <= Len(urls) THEN <<Anchor(html_escape(urls[i]))>> ELSE <<>>)
       \o LinkifyOut(parts, urls, i + 1)

\* A linkify that escapes the text and makes no anchor.
linkify_noAnchors(text) == html_escape(text)

linkify(text) ==
  Concat(LinkifyOut(URL_RE_split(text, 1), URL_RE_findall(text, 1), 1))

-----------------------------------------------------------------------------
(* int()                                                                   *)

DigitVal(c) == Ord(c) - 48

\* The value of a run of digits with single underscores between them, -1 when
\* ds is not such a run.
RECURSIVE DigitsVal(_, _, _)
DigitsVal(ds, acc, prevDigit) ==
  IF ds = <<>> THEN (IF prevDigit THEN acc ELSE -1)
  ELSE IF IsDigit(Head(ds))
       THEN DigitsVal(Tail(ds), acc * 10 + DigitVal(Head(ds)), TRUE)
  ELSE IF Head(ds) = "_" /\ prevDigit THEN DigitsVal(Tail(ds), acc, FALSE)
  ELSE -1

\* int(s) for a str s: [ok |-> FALSE] is ValueError.
ParseInt(s) ==
  LET t == Strip(s)
      neg == t # <<>> /\ Head(t) = "-"
      body == IF t # <<>> /\ Head(t) \in {"+", "-"} THEN Tail(t) ELSE t
      v == DigitsVal(body, 0, FALSE)
  IN IF v < 0 THEN [ok |-> FALSE, val |-> 0]
     ELSE [ok |-> TRUE, val |-> IF neg THEN -v ELSE v]

-----------------------------------------------------------------------------
(* Elements                                                                *)
(*                                                                         *)
(* The tree is an arena: a function from element identities (1..N, the     *)
(* root is 1) to records.  An Element's tag "{ns}local" is the pair ns,    *)
(* tag; attrib is the ordered dict as a sequence of <<key, value>>; text   *)
(* and tail are str (None is the empty str: the program only reads them    *)
(* through "or ''", findtext and itertext); kids are the children.         *)

Root == 1

Elem(ns, tag, attrib, text, tail, kids) ==
  [ns |-> ns, tag |-> tag, attrib |-> attrib, text |-> text, tail |-> tail,
   kids |-> kids]

\* e.get(key): the value, or None.
Get(e, key) ==
  LET hits == {k \in 1..Len(e.attrib) : e.attrib[k][1] = key}
  IN IF hits = {} THEN NoneV
     ELSE e.attrib[CHOOSE k \in hits : \A m \in hits : k <= m][2]

\* bool(element) of Python 3.11: an element with no children is falsy.
Truthy(E, n) == Len(E[n].kids) > 0

\* e.tag == name
TagIs(e, name) == e.ns = "" /\ e.tag = name

\* element.iter(): the subtree in document order, the element first.
RECURSIVE Iter(_, _), IterKids(_, _)
Iter(E, n) == <<n>> \o IterKids(E, E[n].kids)
IterKids(E, ks) ==
  IF ks = <<>> THEN <<>> ELSE Iter(E, Head(ks)) \o IterKids(E, Tail(ks))

\* ''.join(element.itertext())
RECURSIVE IterText(_, _), IterTextKids(_, _)
IterText(E, n) == E[n].text \o IterTextKids(E, E[n].kids)
IterTextKids(E, ks) ==
  IF ks = <<>> THEN <<>>
  ELSE IterText(E, Head(ks)) \o E[Head(ks)].tail \o IterTextKids(E, Tail(ks))

Range(s) == {s[k] : k \in 1..Len(s)}

\* A sequence without its elements that are in the set drop.
RECURSIVE Without(_, _)
Without(s, drop) ==
  IF s = <<>> THEN <<>>
  ELSE (IF Head(s) \in drop THEN <<>> ELSE <<Head(s)>>) \o Without(Tail(s), drop)

\* The elements of a sequence of identities that have the tag and, when key is
\* not None, the attribute key = value: the XPath step tag[@key="value"].
RECURSIVE Matching(_, _, _, _, _)
Matching(E, ns, tag, key, value) ==
  IF ns = <<>> THEN <<>>
  ELSE (IF TagIs(E[Head(ns)], tag)
           /\ (key = NoneV \/ Get(E[Head(ns)], key) = value)
        THEN <<Head(ns)>> ELSE <<>>)
       \o Matching(E, Tail(ns), tag, key, value)

\* n.findall('.//tag[@key="value"]'): the descendants, n itself excluded.
FindAllDesc(E, n, tag, key, value) ==
  Matching(E, Tail(Iter(E, n)), tag, key, value)

\* n.findall('tag[@key="value"]'): the children.
FindAllKids(E, n, tag, key, value) == Matching(E, E[n].kids, tag, key, value)

\* n.find('tag[@key="value"]'): the first such child, or None.
FindKid(E, n, tag, key, value) ==
  LET m == FindAllKids(E, n, tag, key, value)
  IN IF m = <<>> THEN NoNode ELSE Head(m)

\* n.findtext('tag[@key="value"]', default): the text of the first such child
\* ('' when its text is None), or the default.
FindText(E, n, tag, key, value, default) ==
  LET k == FindKid(E, n, tag, key, value)
  IN IF k = NoNode THEN default ELSE E[k].text

\* strip_ns: every tag loses its namespace.
strip_ns(E) == [n \in DOMAIN E |-> [E[n] EXCEPT !.ns = ""]]

-----------------------------------------------------------------------------
(* remove_sensitive                                                        *)

\* next((pr for pr in obj.iter() if p in pr), None)
ParentOf(E, obj, p) ==
  LET it == Iter(E, obj)
      hits == {k \in 1..Len(it) : p \in Range(E[it[k]].kids)}
  IN IF hits = {} THEN NoNode
     ELSE it[CHOOSE k \in hits : \A m \in hits : k <= m]

\* The test of line 53 on property p.
SensitiveProp(E, p) ==
  LET nm == Get(E[p], S_name)
      name == Lower(IF nm = NoneV THEN <<>> ELSE nm)
      text_all == IterText(E, p)
  IN Contains(name, S_password) \/ IP_RE_search(text_all)

\* The first loop: st is [E, removed]; props is the list that findall built
\* before the loop began.
RECURSIVE RemoveProps(_, _, _)
RemoveProps(st, obj, props) ==
  IF props = <<>> THEN st
  ELSE LET p == Head(props)
           parent == IF SensitiveProp(st.E, p)
                     THEN ParentOf(st.E, obj, p) ELSE NoNode
       IN IF parent # NoNode /\ Truthy(st.E, parent)
          THEN RemoveProps(
                 [E |-> [st.E EXCEPT ![parent].kids = Without(@, {p})],
                  removed |-> st.removed \cup Range(Iter(st.E, p))],
                 obj, Tail(props))
          ELSE RemoveProps(st, obj, Tail(props))

\* The test of line 58 on one attribute.
SensitiveAttr(kv) ==
  Contains(Lower(kv[1]), S_password) \/ IP_RE_search(kv[2])

\* remove_sensitive(obj): the arena afterwards, the elements it detached and
\* the attributes it deleted.
remove_sensitive(E, obj) ==
  LET st == RemoveProps([E |-> E, removed |-> {}], obj,
                        FindAllDesc(E, obj, "property", NoneV, NoneV))
      keep == SelectSeq(st.E[obj].attrib, LAMBDA kv : ~SensitiveAttr(kv))
      gone == {kv \in Range(st.E[obj].attrib) : SensitiveAttr(kv)}
  IN [E |-> [st.E EXCEPT ![obj].attrib = keep],
      removed |-> st.removed,
      removed_attrs |-> {<<obj, kv[1], kv[2]>> : kv \in gone}]

-----------------------------------------------------------------------------
(* promote_title                                                           *)

\* A new Element: the identity after the last one of the arena.
Fresh(E) == Cardinality(DOMAIN E) + 1

promote_title(E, obj) ==
  LET prop == FindKid(E, obj, "property", S_name, S_title)
  IN IF prop = NoNode \/ ~Truthy(E, prop) THEN E
     ELSE LET t == Fresh(E)
              title_el == Elem("", "title", <<>>, Strip(E[prop].text), <<>>, <<>>)
              E1 == [n \in DOMAIN E \cup {t} |-> IF n = t THEN title_el ELSE E[n]]
          IN [E1 EXCEPT ![obj].kids = Without(<<t>> \o @, {prop})]

-----------------------------------------------------------------------------
(* get_sort_key and the sort                                               *)

\* The key function of the mode applied to o: [ok |-> FALSE] is the
\* ValueError that int() raises.  (The creationDate mode is not modelled.)
get_sort_key(md, E, o) ==
  IF md = "id"
  THEN LET s == FindText(E, o, "id", S_name, S_id, <<"0">>)
       IN IF s = <<>> THEN [ok |-> TRUE, val |-> 0] ELSE ParseInt(s)
  ELSE [ok |-> TRUE, val |-> Lower(FindText(E, o, "title", NoneV, NoneV, <<>>))]

\* a < b for two keys of the mode.
KeyLess(md, a, b) == IF md = "id" THEN a < b ELSE StrLess(a, b)

\* An insertion that puts x before the elements of an equal key: the sort is
\* no longer stable.
RECURSIVE InsertSorted_unstable(_, _, _, _)
InsertSorted_unstable(md, E, done, x) ==
  IF done = <<>> THEN <<x>>
  ELSE IF ~KeyLess(md, get_sort_key(md, E, Head(done)).val,
                   get_sort_key(md, E, x).val)
       THEN <<x>> \o done
       ELSE <<Head(done)>> \o InsertSorted_unstable(md, E, Tail(done), x)

\* x put into the sorted list after every element that is not greater.
RECURSIVE InsertSorted(_, _, _, _)
InsertSorted(md, E, done, x) ==
  IF done = <<>> THEN <<x>>
  ELSE IF KeyLess(md, get_sort_key(md, E, x).val,
                  get_sort_key(md, E, Head(done)).val)
       THEN <<x>> \o done
       ELSE <<Head(done)>> \o InsertSorted(md, E, Tail(done), x)

RECURSIVE SortFrom(_, _, _, _)
SortFrom(md, E, done, rest) ==
  IF rest = <<>> THEN done
  ELSE SortFrom(md, E, InsertSorted(md, E, done, Head(rest)), Tail(rest))

\* list.sort(key=...): stable; the list as it was when a key raises.
SortPages(md, E, ps) ==
  IF \E k \in 1..Len(ps) : ~get_sort_key(md, E, ps[k]).ok
  THEN [ok |-> FALSE, pages |-> ps]
  ELSE [ok |-> TRUE, pages |-> SortFrom(md, E, <<>>, ps)]

-----------------------------------------------------------------------------
(* body_map                                                                *)

BodyKey(E, bo) == FindText(E, bo, "id", S_name, S_id, NoneV)

\* {bo.findtext('id[@name="id"]'): bo for bo in body_objs}: the last object
\* of a key stays.
BodyMap(E) ==
  LET bos == FindAllDesc(E, Root, "object", S_class, S_BodyContent)
      keys == {BodyKey(E, bos[k]) : k \in 1..Len(bos)}
  IN [key \in keys |->
        bos[CHOOSE k \in 1..Len(bos) :
              /\ BodyKey(E, bos[k]) = key
              /\ \A m \in 1..Len(bos) : BodyKey(E, bos[m]) = key => m <= k]]

-----------------------------------------------------------------------------
(* ET.indent and the serializer                                            *)

RECURSIVE Spaces(_)
Spaces(k) == IF k = 0 THEN <<>> ELSE <<" ">> \o Spaces(k - 1)

\* "\n" + level * space, with space = two blanks
Indentation(level) == <<"\n">> \o Spaces(2 * level)

Blank(s) == Strip(s) = <<>>

\* _indent_children(elem, level) and its loop over the children.
RECURSIVE IndentChildren(_, _, _), IndentKids(_, _, _)
IndentChildren(E, n, level) ==
  LET E1 == IF Blank(E[n].text)
            THEN [E EXCEPT ![n].text = Indentation(level + 1)] ELSE E
      E2 == IndentKids(E1, E[n].kids, level + 1)
      last == E[n].kids[Len(E[n].kids)]
  IN IF Blank(E2[last].tail)
     THEN [E2 EXCEPT ![last].tail = Indentation(level)] ELSE E2
IndentKids(E, ks, child_level) ==
  IF ks = <<>> THEN E
  ELSE LET c == Head(ks)
           E1 == IF Truthy(E, c) THEN IndentChildren(E, c, child_level) ELSE E
           E2 == IF Blank(E1[c].tail)
                 THEN [E1 EXCEPT ![c].tail = Indentation(child_level)] ELSE E1
       IN IndentKids(E2, Tail(ks), child_level)

\* ET.indent(tree, space='  ')
Indent(E) == IF Truthy(E, Root) THEN IndentChildren(E, Root, 0) ELSE E

\* _escape_cdata: the character data of the output.
RECURSIVE EscapeCdata(_)
EscapeCdata(s) ==
  IF s = <<>> THEN <<>>
  ELSE (IF Head(s) \in {"&", "<", ">"} THEN EscapeCh(Head(s)) ELSE <<Head(s)>>)
       \o EscapeCdata(Tail(s))

\* The markup of element n and its tail, as tokens: a start tag (with the
\* identity of the element it was written from), character data, an end tag.
\* xml writes an element with no text and no children as one empty tag; html
\* always writes both tags.
RECURSIVE Serialize(_, _, _), SerializeKids(_, _, _)
Serialize(E, n, method) ==
  LET e == E[n]
      short == method = "xml" /\ e.text = <<>> /\ e.kids = <<>>
      start == [k |-> IF short THEN "empty" ELSE "start", node |-> n,
                tag |-> e.tag, attrib |-> e.attrib]
      chars(s) == IF s = <<>> THEN <<>>
                  ELSE <<[k |-> "chars", s |-> EscapeCdata(s)]>>
  IN <<start>>
     \o (IF short THEN <<>>
         ELSE chars(e.text) \o SerializeKids(E, e.kids, method)
              \o <<[k |-> "end", tag |-> e.tag]>>)
     \o chars(e.tail)
SerializeKids(E, ks, method) ==
  IF ks = <<>> THEN <<>>
  ELSE Serialize(E, Head(ks), method) \o SerializeKids(E, Tail(ks), method)

IsPage(e) == TagIs(e, "object") /\ Get(e, S_class) = S_Page

\* write_sorted_xml up to the write: root[:] = kept + pages, then the indent.
Reassemble(E, ps) ==
  LET kept == SelectSeq(E[Root].kids, LAMBDA c : ~IsPage(E[c]))
  IN Indent([E EXCEPT ![Root].kids = kept \o ps])

-----------------------------------------------------------------------------
(* write_html_report                                                       *)
(*                                                                         *)
(* The report is the list of its sections, a section the list of the       *)
(* blocks the loop body appends.  A block holds what the code puts in the  *)
(* line: escaped text, linkified text, or the markup of elements.          *)

\* Lines 132-139: the h2 of the section.
SectionTitle(E, o) ==
  LET t1 == FindText(E, o, "title", NoneV, NoneV, NoneV)
      t2 == IF t1 # NoneV /\ t1 # <<>> THEN Strip(t1)
            ELSE Strip(FindText(E, o, "property", S_name, S_lowerTitle, <<>>))
  IN IF t2 = <<>> THEN S_sinTitulo ELSE t2

\* Lines 141-144: the ID and the creation date, when there is one.
SectionIdDate(E, o) ==
  LET idv == FindText(E, o, "id", S_name, S_id, NoneV)
      cd == FindText(E, o, "property", S_name, S_creationDate, NoneV)
  IN (IF idv # NoneV /\ idv # <<>>
      THEN <<[k |-> "id", html |-> html_escape(idv)]>> ELSE <<>>)
     \o (IF cd # NoneV /\ cd # <<>>
         THEN <<[k |-> "date", html |-> html_escape(cd)]>> ELSE <<>>)

\* Lines 151-167 for one element of the bodyContents collection.  The block
\* "raise" is html.escape(None) raising AttributeError: the element has no id
\* and body_map has the key None.
BodyBlock(E, bm, el) ==
  LET bc_id == FindText(E, el, "id", S_name, S_id, NoneV)
      bc_obj == IF bc_id \in DOMAIN bm THEN bm[bc_id] ELSE NoNode
      body_prop == IF bc_obj = NoNode THEN NoNode
                   ELSE FindKid(E, bc_obj, "property", S_name, S_body)
      content == SerializeKids(E, E[body_prop].kids, "html")
  IN IF body_prop = NoNode THEN <<>>
     ELSE IF bc_id = NoneV THEN <<[k |-> "raise"]>>
     ELSE <<[k |-> "body",
             entry |-> html_escape(bc_id),
             raw |-> Serialize(E, body_prop, "xml"),
             markup |-> content,
             html |-> IF content = <<>> THEN html_escape(E[body_prop].text)
                      ELSE <<>>]>>

RECURSIVE BodyBlocks(_, _, _)
BodyBlocks(E, bm, els) ==
  IF els = <<>> THEN <<>>
  ELSE BodyBlock(E, bm, Head(els)) \o BodyBlocks(E, bm, Tail(els))

\* Lines 147-167.
SectionBody(E, bm, o) ==
  LET bcs == FindAllDesc(E, o, "collection", S_name, S_bodyContents)
  IN IF bcs = <<>> THEN <<>>
     ELSE BodyBlocks(E, bm,
                     FindAllKids(E, Head(bcs), "element", NoneV, NoneV))

SkipNames == {S_title, Lower(S_creationDate), Lower(S_lowerTitle), S_body}

\* Lines 171-177 for the properties ps.
RECURSIVE SectionProps(_, _)
SectionProps(E, ps) ==
  IF ps = <<>> THEN <<>>
  ELSE LET g == Get(E[Head(ps)], S_name)
           nm == IF g = NoneV THEN <<>> ELSE g
           txt == Strip(IterText(E, Head(ps)))
       IN (IF Lower(nm) \notin SkipNames /\ txt # <<>>
           THEN <<[k |-> "prop", prop |-> Head(ps), label |-> html_escape(nm),
                   html |-> linkify(txt)]>>
           ELSE <<>>)
          \o SectionProps(E, Tail(ps))

\* serialize_children(elem)
serialize_children(E, el) ==
  IF E[el].kids # <<>>
  THEN [markup |-> SerializeKids(E, E[el].kids, "html"), html |-> <<>>]
  ELSE [markup |-> <<>>, html |-> html_escape(E[el].text)]

\* Lines 180-187 for the collections cs.
RECURSIVE SectionColls(_, _)
SectionColls(E, cs) ==
  IF cs = <<>> THEN <<>>
  ELSE LET g == Get(E[Head(cs)], S_name)
           nm == IF g = NoneV THEN <<>> ELSE g
           els == FindAllKids(E, Head(cs), "element", NoneV, NoneV)
       IN (IF nm = S_bodyContents THEN <<>>
           ELSE <<[k |-> "coll", label |-> html_escape(nm),
                   items |-> [j \in 1..Len(els) |->
                                serialize_children(E, els[j])]]>>)
          \o SectionColls(E, Tail(cs))

\* The body of the loop of line 129 for the record o.
Section(E, bm, o) ==
  [page |-> o,
   blocks |-> <<[k |-> "h2", html |-> html_escape(SectionTitle(E, o))]>>
              \o SectionIdDate(E, o)
              \o SectionBody(E, bm, o)
              \o SectionProps(E, FindAllKids(E, o, "property", NoneV, NoneV))
              \o SectionColls(E, FindAllKids(E, o, "collection", NoneV, NoneV))
              \o <<[k |-> "raw", raw |-> Serialize(E, o, "xml")]>>]

\* The sections of the records ps, in their order.
Report(E, bm, ps) == [j \in 1..Len(ps) |-> Section(E, bm, ps[j])]

\* A section raised: nothing is written.
Raised(rep) ==
  \E j \in 1..Len(rep) : \E b \in 1..Len(rep[j].blocks) :
    rep[j].blocks[b].k = "raise"

-----------------------------------------------------------------------------
(* The input documents                                                     *)
(*                                                                         *)
(* A document is written as a nested tree; ParseTree numbers its elements  *)
(* in document order, as ET.parse builds one Element per start tag.        *)

RECURSIVE TreeSize(_), ForestSize(_)
TreeSize(t) == 1 + ForestSize(t.kids)
ForestSize(ts) ==
  IF ts = <<>> THEN 0 ELSE TreeSize(Head(ts)) + ForestSize(Tail(ts))

RECURSIVE KidIds(_, _)
KidIds(ts, first) ==
  IF ts = <<>> THEN <<>>
  ELSE <<first>> \o KidIds(Tail(ts), first + TreeSize(Head(ts)))

RECURSIVE ParseTree(_, _), ParseForest(_, _)
ParseTree(t, id) ==
  <<Elem(t.ns, t.tag, t.attrib, t.text, t.tail, KidIds(t.kids, id + 1))>>
  \o ParseForest(t.kids, id + 1)
ParseForest(ts, first) ==
  IF ts = <<>> THEN <<>>
  ELSE ParseTree(Head(ts), first)
       \o ParseForest(Tail(ts), first + TreeSize(Head(ts)))

\* Constructors of the nested trees.
N(tag, attrib, text, tail, kids) == Elem("", tag, attrib, text, tail, kids)
IdEl(s) == N("id", <<<<S_name, S_id>>>>, s, <<>>, <<>>)
Prop(name, text, tail, kids) ==
  N("property", <<<<S_name, name>>>>, text, tail, kids)
PageEl(attrs, kids) ==
  N("object", <<<<S_class, S_Page>>>> \o attrs, <<>>, <<>>, kids)
BodyEl(kids) == N("object", <<<<S_class, S_BodyContent>>>>, <<>>, <<>>, kids)
Coll(name, kids) == N("collection", <<<<S_name, name>>>>, <<>>, <<>>, kids)
Element(kids) == N("element", <<>>, <<>>, <<>>, kids)
Doc(kids) == N("root", <<>>, <<>>, <<>>, kids)

\* The sequences over S of length lo to hi.
SeqsOf(S, lo, hi) == UNION {[1..k -> S] : k \in lo..hi}

\* Bounds of the input families.
MaxPages == 3
MaxTitlePages == 2
MaxKids == 2
MaxFrags == 3

\* Family 1, sorting by id: one to MaxPages records, each with no id field
\* or an id field with one of these texts.
IdTexts ==
  {<<"1", "0">>, <<"2">>, <<" ", "2">>, <<>>, <<"a", "b", "c">>}
IdPages ==
  {PageEl(<<>>, <<>>)} \cup {PageEl(<<>>, <<IdEl(s)>>) : s \in IdTexts}
IdDocs == {Doc(ps) : ps \in SeqsOf(IdPages, 1, MaxPages)}

\* Family 2, titles: one to MaxTitlePages records with an id and no title
\* property, a plain-text one, one with a child element, or one nested in a
\* group.
S_Beta == <<"B", "e", "t", "a">>
S_Alpha == <<"A", "l", "p", "h", "a">>
S_alpha == <<"a", "l", "p", "h", "a">>
TitleKids ==
  {<<>>}
  \cup {<<Prop(S_title, t, <<>>, <<>>)>> : t \in {S_Beta, S_Alpha, S_alpha}}
  \cup {<<Prop(S_title, t, <<>>, <<N("b", <<>>, <<"!">>, <<>>, <<>>)>>)>> :
          t \in {S_Beta, S_alpha \o <<" ">>}}
  \cup {<<N("group", <<>>, <<>>, <<>>, <<Prop(S_title, S_Alpha, <<>>, <<>>)>>)>>}
TitlePages ==
  {PageEl(<<>>, <<IdEl(i)>> \o ks) : i \in {<<"5">>, <<"1">>}, ks \in TitleKids}
TitleDocs == {Doc(ps) : ps \in SeqsOf(TitlePages, 1, MaxTitlePages)}

\* Family 3, redaction: one record with some attributes and one property
\* that holds up to MaxKids children.
S_x == <<"x">>
S_12dot == <<"1", ".", "2", ".">>
S_34 == <<"3", ".", "4">>
S_ip == <<"1", "0", ".", "0", ".", "0", ".", "1">>
S_note == <<"n", "o", "t", "e">>
S_k == <<"k">>
RedactAttrs ==
  {<<>>,
   <<<<<<"d", "b", "P", "a", "s", "s", "w", "o", "r", "d">>, S_x>>,
     <<S_k, S_x>>>>,
   <<<<<<"h", "o", "s", "t">>, S_ip>>>>}
RedactKids ==
  {Prop(S_password, S_x, <<" ">>, <<>>),
   Prop(S_k, S_ip, <<>>, <<>>),
   Prop(S_k, S_x, <<>>, <<>>),
   N("i", <<>>, S_34, <<>>, <<>>)}
RedactPages ==
  {PageEl(as, <<Prop(nm, t, <<>>, ks)>>) :
     as \in RedactAttrs,
     nm \in {S_note, <<"P", "a", "s", "s", "w", "o", "r", "d">>},
     t \in {<<>>, S_12dot},
     ks \in SeqsOf(RedactKids, 0, MaxKids)}
RedactDocs == {Doc(<<p>>) : p \in RedactPages}

\* Family 4, nesting: records below the top level, records and BodyContent
\* objects inside a property, the bodyContents cross-reference, a namespace,
\* and the fields the report renders.
S_7 == <<"7">>
S_url == <<"h", "t", "t", "p", ":", "/", "/", "a", ".", "b", "/", "c">>
BodyRef(s) == Coll(S_bodyContents, <<Element(s)>>)
Body == Prop(S_body, <<"t", "e", "x", "t">>, <<>>, <<>>)
NestShapes(i) ==
  {<<N("group", <<>>, <<>>, <<>>, <<PageEl(<<>>, <<IdEl(i)>>)>>)>>,
   <<PageEl(<<>>, <<IdEl(<<"4">>), PageEl(<<>>, <<IdEl(i)>>)>>)>>,
   <<PageEl(<<>>, <<IdEl(<<"4">>),
                    Prop(S_password, <<>>, <<>>, <<PageEl(<<>>, <<IdEl(i)>>)>>)>>)>>,
   <<PageEl(<<>>, <<IdEl(i),
                    Prop(S_password, <<>>, <<>>, <<BodyEl(<<IdEl(S_7), Body>>)>>),
                    BodyRef(<<IdEl(S_7)>>)>>)>>,
   <<BodyEl(<<IdEl(S_7), Body>>), PageEl(<<>>, <<IdEl(i), BodyRef(<<IdEl(S_7)>>)>>)>>,
   <<BodyEl(<<Body>>), PageEl(<<>>, <<IdEl(i), BodyRef(<<>>)>>)>>,
   <<BodyEl(<<IdEl(S_7), Prop(S_body, <<>>, <<>>, <<N("p", <<>>, S_x, <<>>, <<>>)>>)>>),
     PageEl(<<>>, <<IdEl(i), BodyRef(<<IdEl(S_7)>>)>>)>>,
   <<PageEl(<<>>, <<IdEl(i),
                    Prop(S_lowerTitle, S_alpha, <<>>, <<>>),
                    Prop(S_creationDate, <<"2", "0", "2", "0">>, <<>>, <<>>),
                    Prop(<<"l", "i", "n", "k">>, <<"a", " ">> \o S_url, <<>>, <<>>),
                    Coll(<<"l", "a", "b", "e", "l", "s">>,
                         <<N("element", <<>>, <<"<", "b", ">">>, <<>>, <<>>),
                           Element(<<N("b", <<>>, S_x, <<>>, <<>>)>>)>>)>>)>>}
NestDocs ==
  {Doc(sh \o more) :
     sh \in UNION {NestShapes(i) : i \in {<<"1">>, <<"3">>}},
     more \in {<<>>, <<PageEl(<<>>, <<IdEl(<<"2">>)>>)>>}}

\* A document whose tags carry a namespace: strip_ns has work to do.
RECURSIVE Qualified(_)
Qualified(t) ==
  [t EXCEPT !.ns = "urn:x",
            !.kids = [j \in 1..Len(t.kids) |-> Qualified(t.kids[j])]]

-----------------------------------------------------------------------------
(* main                                                                    *)

InputFile == "input.xml"
ParseCauses == {"no element found", "mismatched tag"}
Modes == {"id", "title"}

\* An f-string as its parts: "lit" is literal text, "lbrace" and "rbrace" the
\* doubled braces, "field" a replacement field.  Its value is the list of the
\* pieces it renders: text, or the value of a variable.
FPiece(part, env) ==
  CASE part.k = "lit" -> [k |-> "text", s |-> part.s]
    [] part.k = "lbrace" -> [k |-> "text", s |-> "{"]
    [] part.k = "rbrace" -> [k |-> "text", s |-> "}"]
    [] part.k = "field" -> [k |-> "value", s |-> env[part.s]]

FString(parts, env) == [j \in 1..Len(parts) |-> FPiece(parts[j], env)]

\* f"[ERROR] Failed parsing {{inp}}: {{e}}"
ParseErrorTemplate ==
  <<[k |-> "lit", s |-> "[ERROR] Failed parsing "],
    [k |-> "lbrace"], [k |-> "lit", s |-> "inp"], [k |-> "rbrace"],
    [k |-> "lit", s |-> ": "],
    [k |-> "lbrace"], [k |-> "lit", s |-> "e"], [k |-> "rbrace"]>>

\* print(..., file=sys.stderr) of an f-string, and what the interpreter
\* writes for an exception nobody catches.
Printed(pieces) == << [k |-> "print", pieces |-> pieces, exc |-> "none"] >>
Traceback(exc) == << [k |-> "traceback", pieces |-> <<>>, exc |-> exc] >>

InitCommon ==
  /\ pc = "parse"
  /\ parse_error = "none"
  /\ pages = <<>>
  /\ selected = <<>>
  /\ idx = 0
  /\ body_map = <<>>
  /\ removed = {}
  /\ removed_attrs = {}
  /\ stdout = <<>>
  /\ stderr = <<>>
  /\ exit_code = -1
  /\ files = {}
  /\ out_xml = <<>>
  /\ out_html = <<>>
  /\ xml_failed = FALSE
  /\ html_attempted = FALSE
  /\ lk_out = <<>>

\* The state when main begins: doc is the tree that ET.parse builds if the
\* input is well formed (it stays as it was read), elems the tree main works on.
Init ==
  /\ InitCommon
  /\ \/ mode = "id" /\ \E d \in IdDocs \cup RedactDocs : doc = ParseTree(d, Root)
     \/ mode = "title" /\ \E d \in TitleDocs : doc = ParseTree(d, Root)
     \/ /\ mode \in Modes
        /\ \E d \in NestDocs \cup {Qualified(Doc(<<p>>)) : p \in IdPages} :
             doc = ParseTree(d, Root)
  /\ elems = doc
  /\ lk_text = <<>>

Exit(code) ==
  /\ pc' = "exit"
  /\ exit_code' = code

\* Lines 203-207: ET.parse succeeds, or raises and main reports and exits.
Parse ==
  /\ pc = "parse"
  /\ \E wellformed \in BOOLEAN, e \in ParseCauses :
       IF wellformed
       THEN /\ pc' = "select"
            /\ UNCHANGED <<parse_error, stderr, exit_code>>
       ELSE /\ parse_error' = e
            /\ stderr' = stderr \o
                 Printed(FString(ParseErrorTemplate,
                                 [inp |-> InputFile, e |-> e]))
            /\ Exit(1)
  /\ UNCHANGED <<mode, doc, elems, pages, selected, idx, body_map, removed,
                 removed_attrs, stdout, files, out_xml, out_html, xml_failed,
                 html_attempted, lk_text, lk_out>>

\* Lines 208-212: strip_ns, the records, the BodyContent index.
Select ==
  /\ pc = "select"
  /\ LET E == strip_ns(elems)
         found == FindAllDesc(E, Root, "object", S_class, S_Page)
     IN /\ elems' = E
        /\ pages' = found
        /\ selected' = found
        /\ body_map' = BodyMap(E)
        /\ idx' = 1
        /\ pc' = IF found = <<>> THEN "sort" ELSE "redact"
  /\ UNCHANGED <<mode, doc, parse_error, removed, removed_attrs, stdout, stderr, exit_code,
                 files, out_xml, out_html, xml_failed, html_attempted,
                 lk_text, lk_out>>

\* Line 215, for the record pages[idx].
RemoveSensitive ==
  /\ pc = "redact"
  /\ LET r == remove_sensitive(elems, pages[idx])
     IN /\ elems' = r.E
        /\ removed' = removed \cup r.removed
        /\ removed_attrs' = removed_attrs \cup r.removed_attrs
  /\ pc' = "promote"
  /\ UNCHANGED <<mode, doc, parse_error, pages, selected, idx, body_map, stdout, stderr,
                 exit_code, files, out_xml, out_html, xml_failed,
                 html_attempted, lk_text, lk_out>>

\* Line 216, for the record pages[idx], and the step of the loop.
PromoteTitle ==
  /\ pc = "promote"
  /\ elems' = promote_title(elems, pages[idx])
  /\ idx' = idx + 1
  /\ pc' = IF idx = Len(pages) THEN "sort" ELSE "redact"
  /\ UNCHANGED <<mode, doc, parse_error, pages, selected, body_map, removed, removed_attrs,
                 stdout, stderr, exit_code, files, out_xml, out_html,
                 xml_failed, html_attempted, lk_text, lk_out>>

\* Line 217: a key that raises ends the run with a traceback.
Sort ==
  /\ pc = "sort"
  /\ LET r == SortPages(mode, elems, pages)
     IN IF r.ok
        THEN /\ pages' = r.pages
             /\ pc' = "write_xml"
             /\ UNCHANGED <<stderr, exit_code>>
        ELSE /\ pages' = pages
             /\ stderr' = stderr \o Traceback("ValueError")
             /\ Exit(1)
  /\ UNCHANGED <<mode, doc, parse_error, elems, selected, idx, body_map, removed, removed_attrs,
                 stdout, files, out_xml, out_html, xml_failed, html_attempted,
                 lk_text, lk_out>>

\* A write_sorted_xml whose failure is swallowed: main goes on to the report.
WriteXml_swallow ==
  /\ pc = "write_xml"
  /\ elems' = Reassemble(elems, pages)
  /\ \E writable \in BOOLEAN :
       IF writable
       THEN /\ out_xml' = Serialize(elems', Root, "xml")
            /\ files' = files \cup {"xml"}
            /\ stdout' = stdout \o <<"[OK] XML ordenado">>
            /\ UNCHANGED <<stderr, xml_failed>>
       ELSE /\ xml_failed' = TRUE
            /\ stderr' = stderr \o Traceback("OSError")
            /\ UNCHANGED <<out_xml, files, stdout>>
  /\ pc' = "write_html"
  /\ UNCHANGED <<mode, doc, parse_error, pages, selected, idx, body_map,
                 removed, removed_attrs, exit_code, out_html, html_attempted,
                 lk_text, lk_out>>

\* Lines 219-221: write_sorted_xml; the write may fail (OSError).
WriteXml ==
  /\ pc = "write_xml"
  /\ elems' = Reassemble(elems, pages)
  /\ \E writable \in BOOLEAN :
       IF writable
       THEN /\ out_xml' = Serialize(elems', Root, "xml")
            /\ files' = files \cup {"xml"}
            /\ stdout' = stdout \o <<"[OK] XML ordenado">>
            /\ pc' = "write_html"
            /\ UNCHANGED <<stderr, exit_code, xml_failed>>
       ELSE /\ xml_failed' = TRUE
            /\ stderr' = stderr \o Traceback("OSError")
            /\ Exit(1)
            /\ UNCHANGED <<out_xml, files, stdout>>
  /\ UNCHANGED <<mode, doc, parse_error, pages, selected, idx, body_map, removed, removed_attrs,
                 out_html, html_attempted, lk_text, lk_out>>

\* Lines 223-225: write_html_report; a section may raise, the write may fail.
WriteHtml ==
  /\ pc = "write_html"
  /\ html_attempted' = TRUE
  /\ \E writable \in BOOLEAN, rep \in {Report(elems, body_map, pages)} :
       IF Raised(rep) \/ ~writable
       THEN /\ stderr' = stderr \o
                 Traceback(IF Raised(rep) THEN "AttributeError" ELSE "OSError")
            /\ Exit(1)
            /\ UNCHANGED <<out_html, files, stdout>>
       ELSE /\ out_html' = rep
            /\ files' = files \cup {"html"}
            /\ stdout' = stdout \o <<"[OK] HTML generado">>
            /\ Exit(0)
            /\ UNCHANGED stderr
  /\ UNCHANGED <<mode, doc, parse_error, elems, pages, selected, idx, body_map, removed,
                 removed_attrs, out_xml, xml_failed, lk_text, lk_out>>

Next ==
  \/ Parse
  \/ Select
  \/ RemoveSensitive
  \/ PromoteTitle
  \/ Sort
  \/ WriteXml
  \/ WriteHtml

Spec == Init /\ [][Next]_vars

-----------------------------------------------------------------------------
(* linkify on its own                                                      *)

\* The texts linkify is applied to: up to MaxFrags of these fragments in a
\* row, and the sentence of the documentation.
LinkFrags ==
  {<<"a", " ">>,
   <<"h", "t", "t", "p", ":", "/", "/", "a">>,
   <<"h", "t", "t", "p", "s", ":", "/", "/", "b">>,
   <<"h", "t", "t", "p", ":", "/">>,
   <<"<">>, <<"&">>, <<"]">>}
UrlA ==
  <<"h", "t", "t", "p", ":", "/", "/", "a", ".", "e", "x", "a", "m", "p",
  "l", "e", "/", "x">>
UrlB ==
  <<"h", "t", "t", "p", ":", "/", "/", "b", ".", "e", "x", "a", "m", "p",
  "l", "e", "/", "y">>
LinkExample ==
  <<"s", "e", "e", " ">> \o UrlA \o <<" ", "a", "n", "d", " ">> \o UrlB
  \o <<" ", "f", "o", "r", " ", "i", "n", "f", "o">>
LinkTexts ==
  {Concat(fs) : fs \in SeqsOf(LinkFrags, 0, MaxFrags)} \cup {LinkExample}

InitLinkify ==
  /\ InitCommon
  /\ mode = "id"
  /\ doc = <<>>
  /\ elems = <<>>
  /\ lk_text \in LinkTexts

\* out = linkify(text)
Linkify ==
  /\ pc = "parse"
  /\ lk_out' = linkify(lk_text)
  /\ pc' = "linkified"
  /\ UNCHANGED <<mode, doc, parse_error, elems, pages, selected, idx,
                 body_map, removed, removed_attrs, stdout, stderr, exit_code,
                 files, out_xml, out_html, xml_failed, html_attempted,
                 lk_text>>

SpecLinkify == InitLinkify /\ [][Linkify]_vars

-----------------------------------------------------------------------------
(* Properties                                                              *)

\* Reading the HTML that linkify returns back: the entities, then the runs of
\* text and the anchors.
Entities ==
  {[code |-> EscapeCh(c), ch |-> c] : c \in {"&", "<", ">", "\"", "'"}}

StartsWith(s, pat) == Slice(s, 1, Len(pat)) = pat

Drop(s, n) == Slice(s, n + 1, Len(s))

\* The first position of character c in s, Len(s) + 1 when it is not there.
FirstIndex(s, c) ==
  LET hits == {k \in 1..Len(s) : s[k] = c}
  IN IF hits = {} THEN Len(s) + 1
     ELSE CHOOSE k \in hits : \A m \in hits : k <= m

RECURSIVE Unescape(_)
Unescape(s) ==
  IF s = <<>> THEN <<>>
  ELSE IF Head(s) = "&"
       THEN LET es == {e \in Entities : StartsWith(s, e.code)}
            IN IF es = {} THEN <<"?">> \o Unescape(Tail(s))
               ELSE LET e == CHOOSE x \in es : TRUE
                    IN <<e.ch>> \o Unescape(Drop(s, Len(e.code)))
       ELSE <<Head(s)>> \o Unescape(Tail(s))

RECURSIVE Segments(_)
Segments(s) ==
  IF s = <<>> THEN <<>>
  ELSE IF StartsWith(s, A_open)
       THEN LET r1 == Drop(s, Len(A_open))
                href == Slice(r1, 1, FirstIndex(r1, "\"") - 1)
                r2 == Drop(r1, Len(href))
                r3 == Drop(r2, Len(A_mid))
                label == Slice(r3, 1, FirstIndex(r3, "<") - 1)
                r4 == Drop(r3, Len(label))
            IN IF StartsWith(r2, A_mid) /\ StartsWith(r4, A_close)
               THEN <<[k |-> "a", href |-> Unescape(href),
                       text |-> Unescape(label)]>>
                    \o Segments(Drop(r4, Len(A_close)))
               ELSE <<[k |-> "bad", href |-> <<>>, text |-> s]>>
  ELSE IF Head(s) \in {"<", ">", "\"", "'"}
       THEN <<[k |-> "bad", href |-> <<>>, text |-> s]>>
  ELSE LET run == Slice(s, 1, FirstIndex(s, "<") - 1)
       IN <<[k |-> "lit", href |-> <<>>, text |-> Unescape(run)]>>
          \o Segments(Drop(s, Len(run)))

\* The text a reader of the segments sees: the literals and the link targets.
RECURSIVE SegmentsText(_)
SegmentsText(segs) ==
  IF segs = <<>> THEN <<>>
  ELSE (IF Head(segs).k = "a" THEN Head(segs).href ELSE Head(segs).text)
       \o SegmentsText(Tail(segs))

WellLinked(text, segs) ==
  /\ \A j \in 1..Len(segs) : segs[j].k \in {"lit", "a"}
  /\ SegmentsText(segs) = text
  /\ \A j \in 1..Len(segs) :
       IF segs[j].k = "a"
       THEN /\ segs[j].text = segs[j].href
            /\ UrlMatchEnd(segs[j].href, 1) = Len(segs[j].href)
            /\ j < Len(segs) =>
                 /\ segs[j + 1].k = "lit"
                 /\ ~UrlChar(Head(segs[j + 1].text))
       ELSE /\ segs[j].text # <<>>
            /\ UrlNextMatch(segs[j].text, 1) = 0

\* C8: linkify returns the literal segments of the text, escaped, and one
\* anchor per maximal URL match, to exactly that URL, in the order of the
\* text: read back, the output is the text again, every anchor is a whole
\* match that ends where a match must end, and no literal holds a URL.
C8_LinkifyKeepsTextAndLinks ==
  pc = "linkified" => WellLinked(lk_text, Segments(lk_out))

\* The sentence of the documentation gives literal, anchor, literal, anchor,
\* literal.
C8_Witness ==
  /\ pc = "linkified"
  /\ lk_text = LinkExample
  /\ Segments(lk_out) =
       <<[k |-> "lit", href |-> <<>>, text |-> <<"s", "e", "e", " ">>],
         [k |-> "a", href |-> UrlA, text |-> UrlA],
         [k |-> "lit", href |-> <<>>, text |-> <<" ", "a", "n", "d", " ">>],
         [k |-> "a", href |-> UrlB, text |-> UrlB],
         [k |-> "lit", href |-> <<>>,
          text |-> <<" ", "f", "o", "r", " ", "i", "n", "f", "o">>]>>

\* C9: a parse failure ends the run with a nonzero status, no output file,
\* and a message on stderr that names the input path and the cause.
C9_ParseFailureReported ==
  parse_error # "none" =>
    /\ pc = "exit"
    /\ exit_code = 1
    /\ files = {}
    /\ \E j \in 1..Len(stderr) :
         /\ stderr[j].k = "print"
         /\ \E a \in 1..Len(stderr[j].pieces) :
              stderr[j].pieces[a] = [k |-> "value", s |-> InputFile]
         /\ \E b \in 1..Len(stderr[j].pieces) :
              stderr[j].pieces[b] = [k |-> "value", s |-> parse_error]

\* C10: the report is attempted and written only after the structured
\* document was written; when that write fails the run ends with a nonzero
\* status, the report neither attempted nor written.
C10_ReportOnlyAfterXml ==
  /\ html_attempted => "xml" \in files
  /\ "html" \in files => "xml" \in files
  /\ xml_failed =>
       /\ pc = "exit"
       /\ exit_code = 1
       /\ ~html_attempted
       /\ files = {}

C10_Witness ==
  /\ xml_failed
  /\ pc = "exit"
  /\ exit_code = 1
  /\ ~html_attempted
  /\ "html" \notin files


\* The elements of ps in the order of ps, each once, are those of qs.
IsPermutation(ps, qs) ==
  /\ Len(ps) = Len(qs)
  /\ Range(ps) = Range(qs)
  /\ Cardinality(Range(ps)) = Len(ps)

PositionIn(s, x) == CHOOSE k \in 1..Len(s) : s[k] = x

\* The sort has run and did not raise.
Sorted == pc \in {"write_xml", "write_html"} \/ xml_failed \/ html_attempted

\* The id field of a record: its first child <id name="id">, if any.
IdField(E, o) == FindKid(E, o, "id", S_name, S_id)

\* The integer the id field of a record stands for; 0 without a field, with
\* an empty one, or with one that is no integer.
IdValue(E, o) ==
  IF IdField(E, o) = NoNode THEN 0
  ELSE LET v == ParseInt(E[IdField(E, o)].text)
       IN IF v.ok THEN v.val ELSE 0

BadId(E, o) == IdField(E, o) = NoNode \/ ~ParseInt(E[IdField(E, o)].text).ok

\* C3: in mode id, once the sort has run, the records are in non-decreasing
\* order of the integer value of their id text, a record without an id field
\* counting as 0, and records of equal value keep the order they were found
\* in.
C3_SortedByIdStable ==
  (mode = "id" /\ Sorted) =>
    /\ IsPermutation(pages, selected)
    /\ \A i \in 1..Len(pages), j \in 1..Len(pages) :
         i < j =>
           /\ IdValue(elems, pages[i]) <= IdValue(elems, pages[j])
           /\ IdValue(elems, pages[i]) = IdValue(elems, pages[j]) =>
                PositionIn(selected, pages[i]) < PositionIn(selected, pages[j])

\* Records found as id=10, id=2, no id are sorted as no id, 2, 10.
C3_Witness ==
  /\ mode = "id"
  /\ pc = "write_xml"
  /\ Len(selected) = 3
  /\ [j \in 1..3 |-> IdValue(elems, selected[j])] = <<10, 2, 0>>
  /\ IdField(elems, selected[3]) = NoNode
  /\ pages = <<selected[3], selected[2], selected[1]>>

\* C4: in mode id a record whose id text is missing, empty or no integer has
\* the key 0, and the run goes on to the sort and the outputs: no ValueError
\* ends it.
C4_BadIdKeyedZero ==
  /\ (mode = "id" /\ pc = "sort") =>
       \A j \in 1..Len(pages) :
         BadId(elems, pages[j]) =>
           get_sort_key("id", elems, pages[j]) = [ok |-> TRUE, val |-> 0]
  /\ \A j \in 1..Len(stderr) : stderr[j].exc # "ValueError"

\* The test of the claim on redaction, for the record o.
Redacted(E, o) ==
  /\ \A p \in Range(FindAllDesc(E, o, "property", NoneV, NoneV)) :
       /\ Get(E[p], S_name) # NoneV =>
            ~Contains(Lower(Get(E[p], S_name)), S_password)
       /\ ~IP_RE_search(IterText(E, p))
  /\ \A kv \in Range(E[o].attrib) :
       /\ ~Contains(Lower(kv[1]), S_password)
       /\ ~IP_RE_search(kv[2])

\* C1: when remove_sensitive has run on a record, no property left anywhere
\* beneath it has "password" in its name or an IPv4-shaped string in its
\* descendant text, and no attribute left on it has "password" in its name or
\* an IPv4-shaped value.
C1_RedactionComplete == pc = "promote" => Redacted(elems, pages[idx])

TitleProps(E, o) == FindAllDesc(E, o, "property", S_name, S_title)

\* The record o of E2 has got the title of its first title property in E.
Promoted(E, E2, o) ==
  /\ E2[o].kids # <<>>
  /\ TagIs(E2[Head(E2[o].kids)], "title")
  /\ Strip(IterText(E2, Head(E2[o].kids)))
       = Strip(IterText(E, Head(TitleProps(E, o))))
  /\ TitleProps(E2, o) = <<>>

\* C2: promote_title on a record with a property named title, wherever it is
\* beneath the record, leaves a title node with that property's content as
\* the first child and no property named title in the record.
C2_TitlePromoted ==
  [][(pc = "promote" /\ TitleProps(elems, pages[idx]) # <<>>)
       => Promoted(elems, elems', pages[idx])]_vars


\* Parsing the structured output again: the tokens back to an arena.  Each
\* element remembers in src the element it was written from.
ParseToken(st, tok) ==
  LET top == IF st.stack = <<>> THEN NoNode ELSE st.stack[Len(st.stack)]
      id == Len(st.arena) + 1
      hung == IF top = NoNode THEN st.arena
              ELSE [st.arena EXCEPT ![top].kids = Append(@, id)]
      new == [ns |-> "", tag |-> tok.tag, attrib |-> tok.attrib,
              text |-> <<>>, tail |-> <<>>, kids |-> <<>>, src |-> tok.node]
  IN CASE tok.k \in {"start", "empty"} ->
            [arena |-> Append(hung, new),
             stack |-> IF tok.k = "start" THEN Append(st.stack, id)
                       ELSE st.stack]
       [] tok.k = "end" ->
            [st EXCEPT !.stack = Slice(@, 1, Len(@) - 1)]
       [] tok.k = "chars" ->
            IF top = NoNode THEN st
            ELSE IF st.arena[top].kids = <<>>
            THEN [st EXCEPT !.arena[top].text = @ \o Unescape(tok.s)]
            ELSE LET last == st.arena[top].kids[Len(st.arena[top].kids)]
                 IN [st EXCEPT !.arena[last].tail = @ \o Unescape(tok.s)]

RECURSIVE ParseTokens(_, _)
ParseTokens(st, toks) ==
  IF toks = <<>> THEN st.arena
  ELSE LET next == ParseToken(st, Head(toks))
       IN IF Len(next.arena) > 0 THEN ParseTokens(next, Tail(toks))
          ELSE next.arena

Reparsed(toks) == ParseTokens([arena |-> <<>>, stack |-> <<>>], toks)

\* The records of a reparsed document in document order, each named by the
\* element it was written from.
RecordsOf(R) ==
  LET found == FindAllDesc(R, Root, "object", S_class, S_Page)
  IN [j \in 1..Len(found) |-> R[found[j]].src]

\* C5: the written document parses to a tree that holds every selected
\* record exactly once, in the sorted order.
C5_RoundTrip ==
  "xml" \in files =>
    /\ IsPermutation(pages, selected)
    /\ RecordsOf(Reparsed(out_xml)) = pages

\* The text of the title property a record came with as a child, None
\* without one.
OriginalTitle(o) ==
  LET D == strip_ns(doc)
      p == FindKid(D, o, "property", S_name, S_title)
  IN IF p = NoNode THEN NoneV ELSE Strip(D[p].text)

FoldedTitle(o) ==
  IF OriginalTitle(o) = NoneV THEN <<>> ELSE Lower(OriginalTitle(o))

RECURSIVE TitlesOf(_)
TitlesOf(ps) ==
  IF ps = <<>> THEN <<>>
  ELSE (IF OriginalTitle(Head(ps)) = NoneV THEN <<>>
        ELSE <<OriginalTitle(Head(ps))>>)
       \o TitlesOf(Tail(ps))

\* The texts of the title elements of a reparsed document, in document order.
TitleElements(R) ==
  LET found == FindAllDesc(R, Root, "title", NoneV, NoneV)
  IN [j \in 1..Len(found) |-> R[found[j]].text]

\* C6: in mode title the records come out in the order of the case-folded
\* text of their original title property, and the structured output holds
\* one title element for each record that had one, in that order.
C6_TitleOrder ==
  (mode = "title" /\ "xml" \in files) =>
    /\ \A i \in 1..Len(pages), j \in 1..Len(pages) :
         i < j => ~StrLess(FoldedTitle(pages[j]), FoldedTitle(pages[i]))
    /\ TitleElements(Reparsed(out_xml)) = TitlesOf(pages)

\* The start tags among tokens.
Tags(toks) ==
  {toks[j] : j \in {x \in 1..Len(toks) : toks[x].k \in {"start", "empty"}}}

\* The start tags of all the markup a block of the report holds.
BlockTags(b) ==
  CASE b.k = "body" -> Tags(b.raw) \cup Tags(b.markup)
    [] b.k = "raw" -> Tags(b.raw)
    [] b.k = "coll" ->
         UNION {Tags(b.items[j].markup) : j \in 1..Len(b.items)}
    [] OTHER -> {}

ReportTags(rep) ==
  UNION {UNION {BlockTags(rep[j].blocks[b]) : b \in 1..Len(rep[j].blocks)} :
           j \in 1..Len(rep)}

\* None of the tags is written from an element that redaction detached or
\* shows an attribute that redaction deleted.
FreeOfRedacted(tags) ==
  /\ \A t \in tags : t.node \notin removed
  /\ \A t \in tags : \A ra \in removed_attrs :
       t.node = ra[1] => \A kv \in Range(t.attrib) : kv[1] # ra[2]

\* C7: nothing that redaction removed from a record, the elements nested in
\* a removed property included, is in the report or in the structured
\* output.
C7_RedactedStaysOut ==
  /\ "xml" \in files => FreeOfRedacted(Tags(out_xml))
  /\ "html" \in files => FreeOfRedacted(ReportTags(out_html))

=============================================================================
